---- MODULE Spec2Model ----
(***************************************************************************)
(* A model of the synchrony crate's BiLock (src/bilock.rs) and of the      *)
(* primitives it is built from: Flag (src/flag.rs) over AtomicBool         *)
(* (src/atomic/unsync.rs), WakerSlot (src/waker_slot.rs) and Shared.       *)
(*                                                                         *)
(* The crate instantiates every primitive twice from one macro body: the   *)
(* `sync` flavor, whose operations on the two handles interleave at the    *)
(* granularity of single atomic operations, and the `unsync` flavor, in    *)
(* which one cooperative context runs each method to its end.  The         *)
(* variable `flavor` fixes the build; StepAllowed encodes the difference.  *)
(***************************************************************************)
EXTENDS Integers, Sequences, FiniteSets, TLC

\* ------------------------------------------------------------- bounds
\* Payloads are the values 0..MaxVal.
MaxVal == 1
\* At most MaxLocks calls of BiLock::lock are made in a run on one pair,
\* at most MaxPairsLocks in a run on two pairs.
MaxLocks == 3
MaxPairsLocks == 2
\* At most MaxFlips calls of Flag::flip are made in one run.
MaxFlips == 3
\* At most MaxOps calls of Flag::swap and Flag::get are made in one run.
MaxOps == 3
\* WakerSlot::register clones at most MaxRegs wakers in one run.
MaxRegs == 3
\* A Shared cell gets at most MaxHandles handles: the one new returns and clones.
MaxHandles == 3

\* Calls of fetch_add and fetch_sub made on one atomic integer.
MaxCalls == 2

\* ------------------------------------------------------------ universe
Flavors == {"sync", "unsync"}
\* Two BiLock::new calls, each returning the handles (a, b).
Pairs == {"p", "q"}
Sides == {"a", "b"}
\* The execution contexts that call Flag::flip on one flag.
Threads == {"t1", "t2", "t3"}
Handles == Pairs \X Sides
\* The tasks whose wakers are registered in a stand-alone WakerSlot (one-element
\* tuples, as a slot holds None or a waker), and the contexts that call its
\* take and wake.
Tasks == {<<"k1">>, <<"k2">>}
Callers == {"c1", "c2"}
\* The handles of a stand-alone Shared cell, numbered as they are made.
HandleIds == 1..MaxHandles
CloneIds == 1..MaxRegs
Vals == 0..MaxVal
\* Option: None is the empty tuple, Some(v) the one-element tuple.
None == <<>>
Some(v) == <<v>>

PairOf(h) == h[1]
OtherOf(h) == <<h[1], IF h[2] = "a" THEN "b" ELSE "a">>
HandlesOf(p) == {<<p, s>> : s \in Sides}

VARIABLES
    flavor,   \* which macro instantiation is running: sync or unsync
    count,    \* count[p]: Shared's live-handle count of pair p's Inner
    cell,     \* cell[p]: "unmade", "live", "freed" (last handle dropped), "taken" (try_unwrap)
    locked,   \* locked[p]: Inner.locked, the Flag
    waiter,   \* waiter[p]: Inner.waiter, None or the task whose waker is stored
    data,     \* data[p]: Inner.data
    pc,       \* pc[h]: where handle h's execution context stands
    woken,    \* woken[h]: h's task was woken and not polled since
    nlock,    \* number of lock() calls made so far
    last,     \* last[p]: the latest value written through a guard and the handle that
              \* wrote it (None for the value given to BiLock::new)
    obs,      \* what the holder of a live guard last read through it: the reading
              \* handle and the value; None once that guard is dropped
    res,      \* the latest try_join / join call: its arguments and its outcome
    fval,     \* a stand-alone Flag: its value
    finit,    \* the value that Flag was created with
    tpc,      \* tpc[t]: "idle", or "cas" inside flip's loop
    cur,      \* cur[t]: flip's local `current`
    failed,   \* failed[t]: a compare-exchange of t's latest flip call returned Err
    nflip,    \* number of flip() calls made so far
    hist,     \* the values flip returned, in the order of the successful compare-exchanges
    slog,     \* the swap and get calls made on the stand-alone Flag, in order: the
              \* call, its argument and what it returned
    wslot,    \* a stand-alone WakerSlot: None, or the task of the stored waker
    sid,      \* which clone that stored waker is (0: none); clones are numbered as made
    nreg,     \* number of waker clones register has made so far
    fate,     \* fate[i]: where clone i is: "unmade", "stored", "waking" (taken by a wake
              \* that has not invoked it yet), "woken", "taken" (handed to take's
              \* caller), "replaced" (dropped by register)
    inv,      \* inv[i]: how many times clone i was invoked
    wpc,      \* wpc[c]: "idle", or "took" inside wake between take and the invocation
    hid,      \* hid[c]: the clone that c's wake took (0: none)
    scount,   \* a stand-alone Shared cell: its live-handle count
    hs,       \* hs[x]: handle x is "none", "live", "freeing" (its drop brought the count
              \* to zero and has not freed yet), "dropped" or "unwrapped"
    spay,     \* the cell's payload: "none", "stored", "freed" or "unwrapped"
    nrel,     \* how many times the payload was released (freed or handed out)
    sval,     \* the value given to Shared::new
    ures,     \* the latest try_unwrap call: handle, count found, outcome, value
    bor,      \* the single-context WakerSlot's RefCell is mutably borrowed
    bfault,   \* a borrow_mut of that RefCell found it borrowed and panicked
    stack,    \* the callers whose wake is inside waker.wake(), outermost first
    aval,     \* a stand-alone single-context atomic integer: its value
    aty,      \* its type: "u8" or "i8"
    ochk,     \* the build checks arithmetic overflow (debug-assertions profile)
    aret,     \* what the latest fetch_add / fetch_sub returned; None before any and
              \* after one that panicked
    afault,   \* a fetch_add / fetch_sub panicked on overflow
    ncall     \* number of fetch_add / fetch_sub calls made so far

bvars == <<count, cell, locked, waiter, data, pc, woken, nlock, last, obs, res>>
fvars == <<fval, finit, tpc, cur, failed, nflip, hist>>
lvars == <<slog>>
wvars == <<wslot, sid, nreg, fate, inv, wpc, hid>>
hvars == <<scount, hs, spay, nrel, sval, ures>>
rvars == <<bor, bfault, stack>>
avars == <<aval, aty, ochk, aret, afault, ncall>>
xvars == <<lvars, wvars, hvars, rvars, avars>>
vars == <<flavor, bvars, fvars, xvars>>

\* --------------------------------------------------------------- Flag
\* AtomicBool::load / Flag::get
FlagGet(v) == v

\* A faulty variant of FlagSwap: returns the previous value but stores nothing.
FlagSwapKeep(v, val) == [ret |-> v, val |-> v]

\* A faulty variant of FlagSwap: returns the value it stores, not the previous one.
FlagSwapNew(v, val) == [ret |-> val, val |-> val]

\* AtomicBool::swap / Flag::swap: stores val, returns the previous value
FlagSwap(v, val) == [ret |-> v, val |-> val]

\* A faulty variant of CompareExchange: stores new without comparing.
CompareExchangeBlind(v, current, new) == [ok |-> TRUE, ret |-> v, val |-> new]

\* A faulty variant of CompareExchange: the comparison is negated.
CompareExchangeNe(v, current, new) ==
    IF v # current
    THEN [ok |-> TRUE, ret |-> v, val |-> new]
    ELSE [ok |-> FALSE, ret |-> v, val |-> v]

\* AtomicBool::compare_exchange: stores new if the value equals current and
\* returns Ok(old), else returns Err(old)
CompareExchange(v, current, new) ==
    IF v = current
    THEN [ok |-> TRUE, ret |-> v, val |-> new]
    ELSE [ok |-> FALSE, ret |-> v, val |-> v]

\* AtomicBool::compare_exchange_weak: the results it may give.  The unsync
\* cell forwards to compare_exchange; the sync flavor is the hardware's weak
\* compare-exchange, which may also fail although the value equals current.
CompareExchangeWeak(fl, v, current, new) ==
    {CompareExchange(v, current, new)}
        \cup (IF fl = "sync" THEN {[ok |-> FALSE, ret |-> v, val |-> v]} ELSE {})

\* ---------------------------------------------------------- WakerSlot
\* A faulty variant of WillWake: never recognises a waker of the same task.
WillWakeNever(x, w) == FALSE

\* Waker::will_wake: two wakers of the same task
WillWake(x, w) == x = w

\* A faulty variant of Register: a stored waker is never replaced.
RegisterKeepOld(slot, w) == IF slot # None THEN slot ELSE w

\* WakerSlot::register
Register(slot, w) ==
    IF slot # None /\ WillWake(slot, w) THEN slot ELSE w

\* A faulty variant of Take: returns the stored waker and leaves it in the slot.
TakeKeep(slot) == [ret |-> slot, slot |-> slot]

\* WakerSlot::take
Take(slot) == [ret |-> slot, slot |-> None]

\* ------------------------------------------------------------- Shared
\* Shared::new: the live-handle count of a fresh cell
SharedNew == 1
\* A faulty variant of SharedClone: the new handle is not counted.
SharedCloneNoCount(c) == c

\* Shared::clone: one more live handle
SharedClone(c) == c + 1
\* Shared's drop: one live handle fewer; at zero the payload is freed
SharedDrop(c) == c - 1
\* Shared::ptr_eq: identity of the allocation
PtrEq(h, o) == PairOf(h) = PairOf(o)
\* A faulty variant of TryUnwrapOk: succeeds whatever the count.
TryUnwrapAny(c) == c >= 1

\* Shared::try_unwrap succeeds only for the last live handle
TryUnwrapOk(c) == c = 1

\* ------------------------------------------------------------- BiLock
NoRes == [call |-> "none", self |-> None, other |-> None, out |-> "none", val |-> None]

\* No BiLock pair exists yet.
BiLockInit ==
    /\ count = [p \in Pairs |-> 0]
    /\ cell = [p \in Pairs |-> "unmade"]
    /\ locked = [p \in Pairs |-> FALSE]
    /\ waiter = [p \in Pairs |-> None]
    /\ data = [p \in Pairs |-> 0]
    /\ last = [p \in Pairs |-> [val |-> 0, by |-> None]]
    /\ pc = [h \in Handles |-> "none"]
    /\ woken = [h \in Handles |-> FALSE]
    /\ nlock = 0
    /\ obs = None
    /\ res = NoRes

\* Flag::new(v), no flip call in progress.
FlagNew(v) ==
    /\ fval = v
    /\ finit = v
    /\ tpc = [t \in Threads |-> "idle"]
    /\ cur = [t \in Threads |-> v]
    /\ failed = [t \in Threads |-> FALSE]
    /\ nflip = 0
    /\ hist = <<>>

\* WakerSlot::new: an empty slot; no waker was cloned, no call is in progress.
SlotNew ==
    /\ wslot = None
    /\ sid = 0
    /\ nreg = 0
    /\ fate = [i \in CloneIds |-> "unmade"]
    /\ inv = [i \in CloneIds |-> 0]
    /\ wpc = [c \in Callers |-> "idle"]
    /\ hid = [c \in Callers |-> 0]

NoUnwrap == [h |-> 0, found |-> 0, out |-> "none", val |-> None]

\* No stand-alone Shared cell exists yet.
SharedInit ==
    /\ scount = 0
    /\ hs = [x \in HandleIds |-> "none"]
    /\ spay = "none"
    /\ nrel = 0
    /\ sval = 0
    /\ ures = NoUnwrap

\* The stand-alone primitives before any call on them.
\* The RefCell of the single-context WakerSlot is not borrowed.
RefCellNew ==
    /\ bor = FALSE
    /\ bfault = FALSE
    /\ stack = <<>>

\* No fetch_add / fetch_sub call was made on the atomic integer; the
\* specifications that use it choose its type, value and build.
AtomicIdle ==
    /\ aret = None
    /\ afault = FALSE
    /\ ncall = 0

\* AtomicU8::default() in a build without overflow checks.
AtomicDefault ==
    /\ aval = 0
    /\ aty = "u8"
    /\ ochk = FALSE
    /\ AtomicIdle

PrimInit ==
    /\ slog = <<>>
    /\ SlotNew
    /\ SharedInit
    /\ RefCellNew
    /\ AtomicDefault

Init ==
    /\ flavor \in Flavors
    /\ BiLockInit
    /\ FlagNew(FALSE)
    /\ PrimInit

\* In the unsync flavor one cooperative context runs a method to its end: no
\* other handle steps while a poll or a guard drop is between its two calls.
StepAllowed(h) ==
    \/ flavor = "sync"
    \/ \A g \in Handles \ {h} : pc[g] \notin {"swapped", "released"}

\* A faulty variant of New: the Shared cell is cloned twice.
NewThreeHandles(p, v) ==
    /\ cell[p] = "unmade"
    /\ \A h \in Handles : StepAllowed(h)
    /\ count' = [count EXCEPT ![p] = SharedClone(SharedClone(SharedNew))]
    /\ cell' = [cell EXCEPT ![p] = "live"]
    /\ locked' = [locked EXCEPT ![p] = FALSE]
    /\ waiter' = [waiter EXCEPT ![p] = None]
    /\ data' = [data EXCEPT ![p] = v]
    /\ last' = [last EXCEPT ![p] = [val |-> v, by |-> None]]
    /\ pc' = [h \in Handles |-> IF PairOf(h) = p THEN "idle" ELSE pc[h]]
    /\ UNCHANGED <<flavor, fvars, xvars, woken, nlock, obs, res>>

\* BiLock::new(v): one Inner in a Shared cell, cloned once; both handles idle.
New(p, v) ==
    /\ cell[p] = "unmade"
    /\ \A h \in Handles : StepAllowed(h)
    /\ count' = [count EXCEPT ![p] = SharedClone(SharedNew)]
    /\ cell' = [cell EXCEPT ![p] = "live"]
    /\ locked' = [locked EXCEPT ![p] = FALSE]
    /\ waiter' = [waiter EXCEPT ![p] = None]
    /\ data' = [data EXCEPT ![p] = v]
    /\ last' = [last EXCEPT ![p] = [val |-> v, by |-> None]]
    /\ pc' = [h \in Handles |-> IF PairOf(h) = p THEN "idle" ELSE pc[h]]
    /\ UNCHANGED <<flavor, fvars, xvars, woken, nlock, obs, res>>

\* BiLock::lock: builds the BiLockAcquire future; nothing of Inner changes.
\* The run makes at most n such calls.
LockWithin(h, n) ==
    /\ pc[h] = "idle"
    /\ StepAllowed(h)
    /\ nlock < n
    /\ nlock' = nlock + 1
    /\ pc' = [pc EXCEPT ![h] = "created"]
    /\ UNCHANGED <<flavor, fvars, xvars, count, cell, locked, waiter, data, last, woken, obs, res>>

\* A faulty variant of PollSwap: the test of the swap's return value is negated.
PollSwapInverted(h) ==
    /\ pc[h] \in {"created", "pending"}
    /\ StepAllowed(h)
    /\ LET r == FlagSwap(locked[PairOf(h)], TRUE)
       IN /\ locked' = [locked EXCEPT ![PairOf(h)] = r.val]
          /\ pc' = [pc EXCEPT ![h] = IF r.ret THEN "held" ELSE "swapped"]
    /\ woken' = [woken EXCEPT ![h] = FALSE]
    /\ UNCHANGED <<flavor, fvars, xvars, count, cell, waiter, data, last, nlock, obs, res>>

\* BiLockAcquire::poll, its first call: locked.swap(true).  A false return is
\* Poll::Ready(guard); a true return goes on to waiter.register.
PollSwap(h) ==
    /\ pc[h] \in {"created", "pending"}
    /\ StepAllowed(h)
    /\ LET r == FlagSwap(locked[PairOf(h)], TRUE)
       IN /\ locked' = [locked EXCEPT ![PairOf(h)] = r.val]
          /\ pc' = [pc EXCEPT ![h] = IF r.ret THEN "swapped" ELSE "held"]
    /\ woken' = [woken EXCEPT ![h] = FALSE]
    /\ UNCHANGED <<flavor, fvars, xvars, count, cell, waiter, data, last, nlock, obs, res>>

\* BiLockAcquire::poll, its second call: waiter.register(cx.waker()), then
\* Poll::Pending.
PollRegister(h) ==
    /\ pc[h] = "swapped"
    /\ waiter' = [waiter EXCEPT ![PairOf(h)] = Register(waiter[PairOf(h)], h)]
    /\ pc' = [pc EXCEPT ![h] = "pending"]
    /\ UNCHANGED <<flavor, fvars, xvars, count, cell, locked, data, last, woken, nlock, obs, res>>

Lock(h) == LockWithin(h, MaxLocks)

LockPairs(h) == LockWithin(h, MaxPairsLocks)

\* A faulty variant of Abandon: dropping the future clears the lock bit.
AbandonUnlock(h) ==
    /\ pc[h] \in {"created", "pending"}
    /\ StepAllowed(h)
    /\ locked' = [locked EXCEPT ![PairOf(h)] = FALSE]
    /\ pc' = [pc EXCEPT ![h] = "idle"]
    /\ UNCHANGED <<flavor, fvars, xvars, count, cell, waiter, data, last, woken, nlock, obs, res>>

\* Dropping a BiLockAcquire that has not completed: the future has no Drop
\* impl, so whatever it registered stays in the slot.
Abandon(h) ==
    /\ pc[h] \in {"created", "pending"}
    /\ StepAllowed(h)
    /\ pc' = [pc EXCEPT ![h] = "idle"]
    /\ UNCHANGED <<flavor, fvars, xvars, count, cell, locked, waiter, data, last, woken, nlock, obs, res>>

\* The guards alive on pair p.  deref and deref_mut reach Inner.data through
\* an UnsafeCell: with two guards alive the accesses race.
Guards(p) == {h \in HandlesOf(p) : pc[h] = "held"}

\* What a deref through h's guard may return: the cell's value, or, when the
\* access races with another guard's, any value.
DerefValues(h) ==
    IF Guards(PairOf(h)) \subseteq {h} THEN {data[PairOf(h)]} ELSE Vals

\* BiLockGuard::deref
Read(h) ==
    /\ pc[h] = "held"
    /\ StepAllowed(h)
    /\ \E v \in DerefValues(h) : obs' = [by |-> h, val |-> v]
    /\ UNCHANGED <<flavor, fvars, xvars, count, cell, locked, waiter, data, last, pc, woken, nlock, res>>

\* BiLockGuard::deref_mut, storing v
Write(h, v) ==
    /\ pc[h] = "held"
    /\ StepAllowed(h)
    /\ data' = [data EXCEPT ![PairOf(h)] = v]
    /\ last' = [last EXCEPT ![PairOf(h)] = [val |-> v, by |-> h]]
    /\ UNCHANGED <<flavor, fvars, xvars, count, cell, locked, waiter, pc, woken, nlock, obs, res>>

\* A faulty variant of DropSwap: the guard's drop leaves the lock bit as it is.
DropSwapNoClear(h) ==
    /\ pc[h] = "held"
    /\ StepAllowed(h)
    /\ pc' = [pc EXCEPT ![h] = "released"]
    /\ obs' = IF obs # None /\ obs.by = h THEN None ELSE obs
    /\ UNCHANGED <<flavor, fvars, xvars, count, cell, locked, waiter, data, last, woken, nlock, res>>

\* A faulty variant of DropSwap: the guard's drop wakes the waiter first and
\* has not cleared the lock bit by then.
DropSwapWakeFirst(h) ==
    /\ pc[h] = "held"
    /\ StepAllowed(h)
    /\ LET t == Take(waiter[PairOf(h)])
       IN /\ waiter' = [waiter EXCEPT ![PairOf(h)] = t.slot]
          /\ woken' = IF t.ret = None THEN woken ELSE [woken EXCEPT ![t.ret] = TRUE]
    /\ pc' = [pc EXCEPT ![h] = "released"]
    /\ obs' = IF obs # None /\ obs.by = h THEN None ELSE obs
    /\ UNCHANGED <<flavor, fvars, xvars, count, cell, locked, data, last, nlock, res>>

\* BiLockGuard::drop, its first call: locked.swap(false)
DropSwap(h) ==
    /\ pc[h] = "held"
    /\ StepAllowed(h)
    /\ locked' = [locked EXCEPT ![PairOf(h)] = FlagSwap(locked[PairOf(h)], FALSE).val]
    /\ pc' = [pc EXCEPT ![h] = "released"]
    /\ obs' = IF obs # None /\ obs.by = h THEN None ELSE obs
    /\ UNCHANGED <<flavor, fvars, xvars, count, cell, waiter, data, last, woken, nlock, res>>

\* BiLockGuard::drop, its second call: waiter.wake(), which takes the stored
\* waker and, if there was one, wakes its task.
DropWake(h) ==
    /\ pc[h] = "released"
    /\ LET t == Take(waiter[PairOf(h)])
       IN /\ waiter' = [waiter EXCEPT ![PairOf(h)] = t.slot]
          /\ woken' = IF t.ret = None THEN woken ELSE [woken EXCEPT ![t.ret] = TRUE]
    /\ pc' = [pc EXCEPT ![h] = "idle"]
    /\ UNCHANGED <<flavor, fvars, xvars, count, cell, locked, data, last, nlock, obs, res>>

\* Dropping a BiLock handle: Shared's drop.  The borrow checker allows it only
\* when no acquisition or guard borrows the handle.
DropHandle(h) ==
    /\ pc[h] = "idle"
    /\ StepAllowed(h)
    /\ LET c == SharedDrop(count[PairOf(h)])
       IN /\ count' = [count EXCEPT ![PairOf(h)] = c]
          /\ cell' = [cell EXCEPT ![PairOf(h)] = IF c = 0 THEN "freed" ELSE @]
    /\ pc' = [pc EXCEPT ![h] = "gone"]
    /\ UNCHANGED <<flavor, fvars, xvars, locked, waiter, data, last, woken, nlock, obs, res>>

\* What try_join does once ptr_eq held, with `other` dropped first or not:
\* try_unwrap on self's handle, and the expect on its result.
Reclaim(h, cnt) ==
    IF TryUnwrapOk(cnt[PairOf(h)])
    THEN [count |-> [cnt EXCEPT ![PairOf(h)] = 0],
          cell |-> [p \in Pairs |-> IF p = PairOf(h) THEN "taken"
                                    ELSE IF cnt[p] = 0 /\ cell[p] = "live"
                                         THEN "freed" ELSE cell[p]],
          out |-> "Some", val |-> Some(data[PairOf(h)])]
    \* .expect("BiLock is still shared"); map_err drops the Err's handle
    ELSE [count |-> [cnt EXCEPT ![PairOf(h)] = SharedDrop(@)],
          cell |-> [p \in Pairs |-> IF cnt[p] = 0 /\ cell[p] = "live"
                                    THEN "freed" ELSE cell[p]],
          out |-> "panic_shared", val |-> None]

\* A faulty variant of TryJoinOutcome: `other` is not dropped before try_unwrap.
TryJoinOutcomeNoDrop(h, o) ==
    IF PtrEq(h, o)
    THEN Reclaim(h, count)
    ELSE LET cs == [count EXCEPT ![PairOf(h)] = SharedDrop(@), ![PairOf(o)] = SharedDrop(@)]
         IN [count |-> cs,
             cell |-> [p \in Pairs |-> IF p \in {PairOf(h), PairOf(o)} /\ cs[p] = 0
                                       THEN "freed" ELSE cell[p]],
             out |-> "None", val |-> None]

\* A faulty variant of TryJoinOutcome: the ptr_eq test is missing.
TryJoinOutcomeNoPtrEq(h, o) ==
    Reclaim(h, [count EXCEPT ![PairOf(o)] = SharedDrop(@)])

\* The outcome of BiLock::try_join(self = h, other = o) as a record:
\* the counts and cells it leaves and what it returns.
TryJoinOutcome(h, o) ==
    IF PtrEq(h, o)
    \* drop(other), then try_unwrap(self.0)
    THEN Reclaim(h, [count EXCEPT ![PairOf(o)] = SharedDrop(@)])
    \* None; self and other go out of scope
    ELSE LET cs == [count EXCEPT ![PairOf(h)] = SharedDrop(@), ![PairOf(o)] = SharedDrop(@)]
         IN [count |-> cs,
             cell |-> [p \in Pairs |-> IF p \in {PairOf(h), PairOf(o)} /\ cs[p] = 0
                                       THEN "freed" ELSE cell[p]],
             out |-> "None", val |-> None]

\* BiLock::try_join(self = h, other = o): both handles are moved in, so neither
\* is borrowed by an acquisition or a guard.
TryJoin(h, o) ==
    /\ h # o
    /\ pc[h] = "idle" /\ pc[o] = "idle"
    /\ StepAllowed(h) /\ StepAllowed(o)
    /\ LET r == TryJoinOutcome(h, o)
       IN /\ count' = r.count
          /\ cell' = r.cell
          /\ res' = [call |-> "try_join", self |-> h, other |-> o,
                     out |-> r.out, val |-> r.val]
    /\ pc' = [pc EXCEPT ![h] = "gone", ![o] = "gone"]
    /\ UNCHANGED <<flavor, fvars, xvars, locked, waiter, data, last, woken, nlock, obs>>

\* BiLock::join(self = h, other = o): try_join, and panic_unrelated on None.
Join(h, o) ==
    /\ h # o
    /\ pc[h] = "idle" /\ pc[o] = "idle"
    /\ StepAllowed(h) /\ StepAllowed(o)
    /\ LET r == TryJoinOutcome(h, o)
       IN /\ count' = r.count
          /\ cell' = r.cell
          /\ res' = [call |-> "join", self |-> h, other |-> o,
                     out |-> IF r.out = "None" THEN "panic_unrelated" ELSE r.out,
                     val |-> r.val]
    /\ pc' = [pc EXCEPT ![h] = "gone", ![o] = "gone"]
    /\ UNCHANGED <<flavor, fvars, xvars, locked, waiter, data, last, woken, nlock, obs>>

\* A program that calls BiLock::new once and works on the pair it returns.
Next ==
    \/ \E v \in Vals : New("p", v)
    \/ \E h \in HandlesOf("p") : Lock(h)
    \/ \E h \in HandlesOf("p") : PollSwap(h)
    \/ \E h \in HandlesOf("p") : PollRegister(h)
    \/ \E h \in HandlesOf("p") : Abandon(h)
    \/ \E h \in HandlesOf("p") : Read(h)
    \/ \E h \in HandlesOf("p"), v \in Vals : Write(h, v)
    \/ \E h \in HandlesOf("p") : DropSwap(h)
    \/ \E h \in HandlesOf("p") : DropWake(h)
    \/ \E h \in HandlesOf("p") : DropHandle(h)
    \/ \E h, o \in HandlesOf("p") : TryJoin(h, o)
    \/ \E h, o \in HandlesOf("p") : Join(h, o)

Spec == Init /\ [][Next]_vars

\* A program that calls BiLock::new twice and locks, writes, releases and
\* joins through the handles of both pairs.
NextPairs ==
    \/ \E p \in Pairs, v \in Vals : New(p, v)
    \/ \E h \in Handles : LockPairs(h)
    \/ \E h \in Handles : PollSwap(h)
    \/ \E h \in Handles : PollRegister(h)
    \/ \E h \in Handles : Abandon(h)
    \/ \E h \in Handles, v \in Vals : Write(h, v)
    \/ \E h \in Handles : DropSwap(h)
    \/ \E h \in Handles : DropWake(h)
    \/ \E h \in Handles : DropHandle(h)
    \/ \E h, o \in Handles : TryJoin(h, o)
    \/ \E h, o \in Handles : Join(h, o)

SpecPairs == Init /\ [][NextPairs]_vars

\* A program that calls BiLock::new twice, locks, writes and releases through
\* the handles of both pairs, drops handles, and passes handles of different
\* pairs to try_join.
NextCross ==
    \/ \E p \in Pairs, v \in Vals : New(p, v)
    \/ \E h \in Handles : LockPairs(h)
    \/ \E h \in Handles : PollSwap(h)
    \/ \E h \in Handles : PollRegister(h)
    \/ \E h \in Handles, v \in Vals : Write(h, v)
    \/ \E h \in Handles : DropSwap(h)
    \/ \E h \in Handles : DropWake(h)
    \/ \E h \in Handles : DropHandle(h)
    \/ \E h, o \in Handles : PairOf(h) # PairOf(o) /\ TryJoin(h, o)

SpecCross == Init /\ [][NextCross]_vars

TypeOK ==
    /\ flavor \in Flavors
    /\ count \in [Pairs -> 0..2]
    /\ cell \in [Pairs -> {"unmade", "live", "freed", "taken"}]
    /\ locked \in [Pairs -> BOOLEAN]
    /\ waiter \in [Pairs -> Handles \cup {None}]
    /\ data \in [Pairs -> Vals]
    /\ last \in [Pairs -> [val : Vals, by : Handles \cup {None}]]
    /\ pc \in [Handles -> {"none", "idle", "created", "swapped", "pending",
                           "held", "released", "gone"}]
    /\ woken \in [Handles -> BOOLEAN]
    /\ nlock \in 0..MaxLocks
    /\ obs \in [by : Handles, val : Vals] \cup {None}
    /\ res.call \in {"none", "try_join", "join"}
    /\ res.out \in {"none", "Some", "None", "panic_unrelated", "panic_shared"}
    /\ fval \in BOOLEAN /\ finit \in BOOLEAN
    /\ tpc \in [Threads -> {"idle", "cas"}]
    /\ cur \in [Threads -> BOOLEAN]
    /\ failed \in [Threads -> BOOLEAN]
    /\ nflip \in 0..MaxFlips
    /\ Len(hist) <= nflip

\* The scheduling the callers promise: a poll or a guard drop that has begun
\* runs to its end, a live guard is eventually dropped, and a task that was
\* woken is eventually polled again.
RePoll(h) == woken[h] /\ PollSwap(h)

Fairness ==
    \A h \in HandlesOf("p") :
        /\ WF_vars(PollRegister(h))
        /\ WF_vars(DropWake(h))
        /\ SF_vars(DropSwap(h))
        /\ SF_vars(RePoll(h))

FairSpec == Init /\ [][Next]_vars /\ Fairness

\* --------------------------------------------------------- Flag::flip
\* In the unsync flavor a flip call runs to its end before another begins.
FlipAllowed(t) ==
    \/ flavor = "sync"
    \/ \A u \in Threads \ {t} : tpc[u] = "idle"

\* Flag::flip, up to the loop: let mut current = self.get()
FlipGet(t) ==
    /\ tpc[t] = "idle"
    /\ FlipAllowed(t)
    /\ nflip < MaxFlips
    /\ nflip' = nflip + 1
    /\ cur' = [cur EXCEPT ![t] = FlagGet(fval)]
    /\ failed' = [failed EXCEPT ![t] = FALSE]
    /\ tpc' = [tpc EXCEPT ![t] = "cas"]
    /\ UNCHANGED <<flavor, bvars, xvars, fval, finit, hist>>

\* Flag::flip, one iteration of the loop: compare_exchange_weak(current,
\* !current); Ok returns the new value, Err(previous) retries with previous.
FlipCas(t) ==
    /\ tpc[t] = "cas"
    /\ \E r \in CompareExchangeWeak(flavor, fval, cur[t], ~cur[t]) :
        IF r.ok
        THEN /\ fval' = r.val
             /\ hist' = Append(hist, ~cur[t])
             /\ tpc' = [tpc EXCEPT ![t] = "idle"]
             /\ UNCHANGED <<cur, failed>>
        ELSE /\ cur' = [cur EXCEPT ![t] = r.ret]
             /\ failed' = [failed EXCEPT ![t] = TRUE]
             /\ UNCHANGED <<fval, hist, tpc>>
    /\ UNCHANGED <<flavor, bvars, xvars, finit, nflip>>

\* A flag created with either value, and flip called from the contexts.
FlagInit ==
    /\ flavor \in Flavors
    /\ BiLockInit
    /\ \E v \in BOOLEAN : FlagNew(v)
    /\ PrimInit

FlagNext ==
    \/ \E t \in Threads : FlipGet(t)
    \/ \E t \in Threads : FlipCas(t)

FlagSpec == FlagInit /\ [][FlagNext]_vars

\* Every context that is inside the loop gets to run its compare-exchange,
\* and a compare-exchange does not fail for ever while the value stands.
FlagFairness == \A t \in Threads : WF_vars(FlipCas(t))

FairFlagSpec == FlagInit /\ [][FlagNext]_vars /\ FlagFairness

\* ------------------------------------------------- Flag::swap, Flag::get
\* Flag::swap(val) called by context t: one atomic read-modify-write.
FlagSwapCall(t, val) ==
    /\ Len(slog) < MaxOps
    /\ LET r == FlagSwap(fval, val)
       IN /\ fval' = r.val
          /\ slog' = Append(slog, [op |-> "swap", by |-> t, arg |-> Some(val), ret |-> r.ret])
    /\ UNCHANGED <<flavor, bvars, wvars, hvars, rvars, avars, finit, tpc, cur, failed, nflip, hist>>

\* Flag::get called by context t: one atomic load.
FlagGetCall(t) ==
    /\ Len(slog) < MaxOps
    /\ slog' = Append(slog, [op |-> "get", by |-> t, arg |-> None, ret |-> FlagGet(fval)])
    /\ UNCHANGED <<flavor, bvars, wvars, hvars, rvars, avars, fvars>>

\* A flag created with either value; swap and get called from the contexts.
SwapNext ==
    \/ \E t \in Threads, val \in BOOLEAN : FlagSwapCall(t, val)
    \/ \E t \in Threads : FlagGetCall(t)

SwapSpec == FlagInit /\ [][SwapNext]_vars

\* ---------------------------------------------- a stand-alone WakerSlot
\* In the unsync flavor one context runs wake to its end: nothing else is
\* called on the slot between wake's take and its invocation of the waker.
SlotQuiet == flavor = "sync" \/ \A c \in Callers : wpc[c] = "idle"

SlotAllowed(c) == flavor = "sync" \/ \A d \in Callers \ {c} : wpc[d] = "idle"

\* WakerSlot::register(waker of task k): returns at once if the stored waker
\* will wake the same task, else stores a clone and drops what was stored.
SlotRegister(k) ==
    /\ nreg < MaxRegs
    /\ SlotQuiet
    /\ wslot' = Register(wslot, k)
    /\ IF wslot # None /\ WillWake(wslot, k)
       THEN UNCHANGED <<sid, nreg, fate>>
       ELSE /\ nreg' = nreg + 1
            /\ sid' = nreg + 1
            /\ fate' = [i \in CloneIds |->
                          IF i = nreg + 1 THEN "stored"
                          ELSE IF i = sid THEN "replaced" ELSE fate[i]]
    /\ UNCHANGED <<flavor, bvars, fvars, lvars, hvars, rvars, avars, inv, wpc, hid>>

\* WakerSlot::take called by c, who gets the stored waker if there is one.
SlotTake(c) ==
    /\ wpc[c] = "idle"
    /\ SlotAllowed(c)
    /\ LET t == Take(wslot)
       IN /\ wslot' = t.slot
          /\ sid' = IF t.slot = None THEN 0 ELSE sid
          /\ fate' = IF t.ret = None THEN fate ELSE [fate EXCEPT ![sid] = "taken"]
    /\ UNCHANGED <<flavor, bvars, fvars, lvars, hvars, rvars, avars, nreg, inv, wpc, hid>>

\* WakerSlot::wake called by c, its first call: self.take()
WakeTake(c) ==
    /\ wpc[c] = "idle"
    /\ SlotAllowed(c)
    /\ LET t == Take(wslot)
       IN /\ wslot' = t.slot
          /\ sid' = IF t.slot = None THEN 0 ELSE sid
          /\ hid' = [hid EXCEPT ![c] = IF t.ret = None THEN 0 ELSE sid]
          /\ fate' = IF t.ret = None THEN fate ELSE [fate EXCEPT ![sid] = "waking"]
    /\ wpc' = [wpc EXCEPT ![c] = "took"]
    /\ UNCHANGED <<flavor, bvars, fvars, lvars, hvars, rvars, avars, nreg, inv>>

\* WakerSlot::wake, the rest: if let Some(waker) = .. { waker.wake() }
WakeInvoke(c) ==
    /\ wpc[c] = "took"
    /\ IF hid[c] = 0
       THEN UNCHANGED <<inv, fate>>
       ELSE /\ inv' = [inv EXCEPT ![hid[c]] = @ + 1]
            /\ fate' = [fate EXCEPT ![hid[c]] = "woken"]
    /\ hid' = [hid EXCEPT ![c] = 0]
    /\ wpc' = [wpc EXCEPT ![c] = "idle"]
    /\ UNCHANGED <<flavor, bvars, fvars, lvars, hvars, rvars, avars, wslot, sid, nreg>>

\* Wakers of the tasks are registered in one slot while the callers take
\* and wake.
SlotNext ==
    \/ \E k \in Tasks : SlotRegister(k)
    \/ \E c \in Callers : SlotTake(c)
    \/ \E c \in Callers : WakeTake(c)
    \/ \E c \in Callers : WakeInvoke(c)

SlotSpec == Init /\ [][SlotNext]_vars

\* ------------------------------------------------ a stand-alone Shared
\* In the unsync flavor a drop runs to its end before another call begins.
ShAllowed(x) ==
    \/ flavor = "sync"
    \/ \A y \in HandleIds \ {x} : hs[y] # "freeing"

\* Shared::new(v): allocates the cell, count = 1, and returns handle 1.
ShNew(v) ==
    /\ spay = "none"
    /\ scount' = SharedNew
    /\ hs' = [hs EXCEPT ![1] = "live"]
    /\ spay' = "stored"
    /\ sval' = v
    /\ UNCHANGED <<flavor, bvars, fvars, lvars, wvars, rvars, avars, nrel, ures>>

\* Shared::clone through live handle x: increments the count and returns the
\* next handle.
ShClone(x) ==
    /\ hs[x] = "live"
    /\ ShAllowed(x)
    /\ \E y \in HandleIds :
        /\ hs[y] = "none"
        /\ \A z \in HandleIds : z < y => hs[z] # "none"
        /\ hs' = [hs EXCEPT ![y] = "live"]
    /\ scount' = SharedClone(scount)
    /\ UNCHANGED <<flavor, bvars, fvars, lvars, wvars, rvars, avars, spay, nrel, sval, ures>>

\* Dropping handle x, its first step: the count is decremented; the drop that
\* brings it to zero goes on to free the payload.
ShDropDec(x) ==
    /\ hs[x] = "live"
    /\ ShAllowed(x)
    /\ LET c == SharedDrop(scount)
       IN /\ scount' = c
          /\ hs' = [hs EXCEPT ![x] = IF c = 0 THEN "freeing" ELSE "dropped"]
    /\ UNCHANGED <<flavor, bvars, fvars, lvars, wvars, rvars, avars, spay, nrel, sval, ures>>

\* Dropping handle x, its second step: the payload is freed.
ShDropFree(x) ==
    /\ hs[x] = "freeing"
    /\ hs' = [hs EXCEPT ![x] = "dropped"]
    /\ spay' = "freed"
    /\ nrel' = nrel + 1
    /\ UNCHANGED <<flavor, bvars, fvars, lvars, wvars, rvars, avars, scount, sval, ures>>

\* Shared::try_unwrap(handle x): Ok(payload) if x is the last live handle,
\* else Err(x), the handle given back as it was.
ShTryUnwrap(x) ==
    /\ hs[x] = "live"
    /\ ShAllowed(x)
    /\ IF TryUnwrapOk(scount)
       THEN /\ scount' = 0
            /\ hs' = [hs EXCEPT ![x] = "unwrapped"]
            /\ spay' = "unwrapped"
            /\ nrel' = nrel + 1
            /\ ures' = [h |-> x, found |-> scount, out |-> "Ok", val |-> Some(sval)]
       ELSE /\ ures' = [h |-> x, found |-> scount, out |-> "Err", val |-> None]
            /\ UNCHANGED <<scount, hs, spay, nrel>>
    /\ UNCHANGED <<flavor, bvars, fvars, lvars, wvars, rvars, avars, sval>>

\* One cell; its handles are cloned, dropped and unwrapped in any order.
SharedNext ==
    \/ \E v \in Vals : ShNew(v)
    \/ \E x \in HandleIds : ShClone(x)
    \/ \E x \in HandleIds : ShDropDec(x)
    \/ \E x \in HandleIds : ShDropFree(x)
    \/ \E x \in HandleIds : ShTryUnwrap(x)

SharedSpec == Init /\ [][SharedNext]_vars

\* ------------------- the single-context WakerSlot and its RefCell borrow
\* A faulty variant of BorrowAfterTake: the RefMut lives on while the taken
\* waker is used, as in `if let Some(w) = self.waker.borrow_mut().take()`.
BorrowHeldAfterTake == TRUE

\* Whether the RefCell is still borrowed when WakerSlot::take has returned:
\* the RefMut is a temporary of take's only statement.
BorrowAfterTake == FALSE

\* Top of the stack of wake calls that are inside waker.wake().
Innermost == stack[Len(stack)]

\* A borrow_mut that finds the RefCell borrowed panics; nothing else changes.
BorrowFault ==
    /\ bfault' = TRUE
    /\ UNCHANGED <<flavor, bvars, fvars, lvars, wvars, hvars, avars, bor, stack>>

\* unsync::WakerSlot::register(waker of task k), called by the program or by
\* a continuation that is being invoked.
ReRegister(k) ==
    /\ ~bfault
    /\ nreg < MaxRegs
    /\ IF bor
       THEN BorrowFault
       ELSE /\ wslot' = Register(wslot, k)
            /\ IF wslot # None /\ WillWake(wslot, k)
               THEN UNCHANGED <<sid, nreg, fate>>
               ELSE /\ nreg' = nreg + 1
                    /\ sid' = nreg + 1
                    /\ fate' = [i \in CloneIds |->
                                  IF i = nreg + 1 THEN "stored"
                                  ELSE IF i = sid THEN "replaced" ELSE fate[i]]
            /\ UNCHANGED <<flavor, bvars, fvars, lvars, hvars, rvars, avars, inv, wpc, hid>>

\* unsync::WakerSlot::take called through c, by the program or by a
\* continuation that is being invoked.
ReTake(c) ==
    /\ ~bfault
    /\ wpc[c] = "idle"
    /\ IF bor
       THEN BorrowFault
       ELSE /\ LET t == Take(wslot)
               IN /\ wslot' = t.slot
                  /\ sid' = IF t.slot = None THEN 0 ELSE sid
                  /\ fate' = IF t.ret = None THEN fate ELSE [fate EXCEPT ![sid] = "taken"]
            /\ UNCHANGED <<flavor, bvars, fvars, lvars, hvars, rvars, avars, nreg, inv, wpc, hid>>

\* unsync::WakerSlot::wake called through c, up to the call of waker.wake():
\* self.take(), and if it gave a waker, the invocation begins.
ReWake(c) ==
    /\ ~bfault
    /\ wpc[c] = "idle"
    /\ IF bor
       THEN BorrowFault
       ELSE LET t == Take(wslot)
            IN /\ wslot' = t.slot
               /\ sid' = IF t.slot = None THEN 0 ELSE sid
               /\ IF t.ret = None
                  THEN UNCHANGED <<fate, inv, wpc, hid, rvars>>
                  ELSE /\ fate' = [fate EXCEPT ![sid] = "waking"]
                       /\ inv' = [inv EXCEPT ![sid] = @ + 1]
                       /\ hid' = [hid EXCEPT ![c] = sid]
                       /\ wpc' = [wpc EXCEPT ![c] = "invoking"]
                       /\ stack' = Append(stack, c)
                       /\ bor' = BorrowAfterTake
                       /\ UNCHANGED bfault
               /\ UNCHANGED <<flavor, bvars, fvars, lvars, hvars, avars, nreg>>

\* The continuation invoked by c's wake returns, and with it wake: the
\* innermost invocation ends first.
ReReturn(c) ==
    /\ ~bfault
    /\ stack # <<>>
    /\ c = Innermost
    /\ stack' = SubSeq(stack, 1, Len(stack) - 1)
    /\ fate' = [fate EXCEPT ![hid[c]] = "woken"]
    /\ hid' = [hid EXCEPT ![c] = 0]
    /\ wpc' = [wpc EXCEPT ![c] = "idle"]
    /\ bor' = FALSE
    /\ UNCHANGED <<flavor, bvars, fvars, lvars, hvars, avars, wslot, sid, nreg, inv, bfault>>

\* One context: the program, and the continuations while they are invoked,
\* call register, take and wake on one slot.
ReNext ==
    \/ \E k \in Tasks : ReRegister(k)
    \/ \E c \in Callers : ReTake(c)
    \/ \E c \in Callers : ReWake(c)
    \/ \E c \in Callers : ReReturn(c)

ReInit == Init /\ flavor = "unsync"

ReSpec == ReInit /\ [][ReNext]_vars

\* ------------------------------- the single-context atomic integers
\* atomic_int!(AtomicU8(u8)) and atomic_int!(AtomicI8(i8)): the bits of $i.
Width == 8

IntTypes == {"u8", "i8"}

MinOf(ty) == IF ty = "u8" THEN 0 ELSE -(2 ^ (Width - 1))

MaxOf(ty) == IF ty = "u8" THEN 2 ^ Width - 1 ELSE 2 ^ (Width - 1) - 1

RangeOf(ty) == MinOf(ty)..MaxOf(ty)

\* Two's-complement wrap of an exact result into the range of ty.
Wrap(ty, x) == ((x - MinOf(ty)) % (2 ^ Width)) + MinOf(ty)

\* The arguments tried: the ends of both ranges and the small values.
Args == {MinOf("i8"), -1, 0, 1, MaxOf("i8"), MaxOf("u8")}

\* The operators `+` and `-` of $i on an exact result e: in range it is the
\* result; out of range a build with overflow checks panics and a build
\* without them wraps.
Arith(ty, ck, e) ==
    IF e \in RangeOf(ty) THEN [panic |-> FALSE, val |-> e]
    ELSE IF ck THEN [panic |-> TRUE, val |-> 0]
    ELSE [panic |-> FALSE, val |-> Wrap(ty, e)]

\* self.v.replace(r): stores r and returns the previous value; a panic in
\* the evaluation of r unwinds before replace is called.
Replace(r) ==
    IF r.panic
    THEN /\ afault' = TRUE
         /\ aret' = None
         /\ UNCHANGED aval
    ELSE /\ aval' = r.val
         /\ aret' = Some(aval)
         /\ UNCHANGED afault

\* $t::fetch_add(val): self.v.replace(self.v.get() + val)
FetchAdd(val) ==
    /\ val \in RangeOf(aty)
    /\ ~afault
    /\ ncall < MaxCalls
    /\ ncall' = ncall + 1
    /\ Replace(Arith(aty, ochk, aval + val))
    /\ UNCHANGED <<flavor, bvars, fvars, lvars, wvars, hvars, rvars, aty, ochk>>

\* $t::fetch_sub(val): self.v.replace(self.v.get() - val)
FetchSub(val) ==
    /\ val \in RangeOf(aty)
    /\ ~afault
    /\ ncall < MaxCalls
    /\ ncall' = ncall + 1
    /\ Replace(Arith(aty, ochk, aval - val))
    /\ UNCHANGED <<flavor, bvars, fvars, lvars, wvars, hvars, rvars, aty, ochk>>

\* $t::new(val) of either type, in a build with or without overflow checks.
AtomicInit ==
    /\ flavor = "unsync"
    /\ BiLockInit
    /\ FlagNew(FALSE)
    /\ slog = <<>>
    /\ SlotNew
    /\ SharedInit
    /\ RefCellNew
    /\ aty \in IntTypes
    /\ ochk \in BOOLEAN
    /\ aval \in RangeOf(aty)
    /\ AtomicIdle

AtomicNext ==
    \/ \E val \in Args : FetchAdd(val)
    \/ \E val \in Args : FetchSub(val)

AtomicSpec == AtomicInit /\ [][AtomicNext]_vars

AtomicTypeOK ==
    /\ aty \in IntTypes
    /\ ochk \in BOOLEAN
    /\ aval \in RangeOf(aty)
    /\ aret \in {None} \cup {Some(v) : v \in RangeOf(aty)}
    /\ afault \in BOOLEAN
    /\ ncall \in 0..MaxCalls

\* The shapes of the stand-alone primitives' state.
PrimTypeOK ==
    /\ Len(slog) <= MaxOps
    /\ wslot \in Tasks \cup {None}
    /\ sid \in 0..MaxRegs /\ nreg \in 0..MaxRegs
    /\ fate \in [CloneIds -> {"unmade", "stored", "waking", "woken", "taken", "replaced"}]
    /\ inv \in [CloneIds -> 0..1]
    /\ wpc \in [Callers -> {"idle", "took"}]
    /\ hid \in [Callers -> 0..MaxRegs]
    /\ scount \in 0..MaxHandles
    /\ hs \in [HandleIds -> {"none", "live", "freeing", "dropped", "unwrapped"}]
    /\ spay \in {"none", "stored", "freed", "unwrapped"}
    /\ nrel \in 0..1
    /\ sval \in Vals
    /\ ures.out \in {"none", "Ok", "Err"}

\* ------------------------------------------------------------- claims

\* C11: swap(new) returns the value the flag held immediately before the call
\* and leaves the flag equal to new, in one step; get returns the current
\* value and leaves the flag unchanged.  Hence of two swap(true) calls with
\* no other swap between them the later one returns true: on a false flag
\* exactly one of the two returns false.
C11_SwapGet ==
    /\ [][Len(slog') > Len(slog) =>
            LET e == slog'[Len(slog')]
            IN /\ e.ret = fval
               /\ e.op = "swap" => Some(fval') = e.arg
               /\ e.op = "get" => fval' = fval]_vars
    /\ [](\A i, j \in 1..Len(slog) :
            (/\ i < j
             /\ slog[i].op = "swap" /\ slog[i].arg = Some(TRUE)
             /\ slog[j].op = "swap" /\ slog[j].arg = Some(TRUE)
             /\ \A k \in (i+1)..(j-1) : slog[k].op = "get")
                => slog[j].ret = TRUE)

\* Two contexts called swap(true) on a false flag with a get between them:
\* the first returned false, the get and the second swap returned true.
C11_Witness ==
    /\ finit = FALSE
    /\ Len(slog) = 3
    /\ slog[1] = [op |-> "swap", by |-> "t1", arg |-> Some(TRUE), ret |-> FALSE]
    /\ slog[2] = [op |-> "get", by |-> "t3", arg |-> None, ret |-> TRUE]
    /\ slog[3] = [op |-> "swap", by |-> "t2", arg |-> Some(TRUE), ret |-> TRUE]

\* C1: mutual exclusion.  In every reachable state at most one guard is alive
\* on a pair, and a poll produces a guard only when its locked.swap(true)
\* returned false, that is, the lock bit was false before the poll and is
\* true after it.
C1_MutualExclusion ==
    /\ [](\A p \in Pairs : Cardinality(Guards(p)) <= 1)
    /\ [][\A h \in Handles :
            (pc[h] # "held" /\ pc'[h] = "held")
                => (~locked[PairOf(h)] /\ locked'[PairOf(h)])]_vars

\* One handle holds the guard while the other handle's poll returned Pending.
C1_Witness ==
    /\ pc[<<"p", "a">>] = "held"
    /\ pc[<<"p", "b">>] = "pending"

\* C2: every acquisition that returned Pending eventually obtains the guard
\* (or is abandoned by its caller), under the callers' fair scheduling.
C2_PendingEventuallyAcquires ==
    \A h \in HandlesOf("p") :
        (pc[h] = "pending") ~> (pc[h] \in {"held", "idle"})

\* C3: no reachable state has a continuation stored in the waiter slot while
\* the lock bit is false and no guard exists (neither alive nor inside its
\* drop).
C3_NoStrandedWaiter ==
    \A p \in Pairs :
        ~ /\ waiter[p] # None
          /\ ~locked[p]
          /\ \A h \in HandlesOf(p) : pc[h] \notin {"held", "released"}

\* C4: the lock bit is true exactly when a guard of the pair is outstanding.
C4_LockedIffGuard ==
    \A p \in Pairs : locked[p] <=> (Guards(p) # {})

\* A guard drop has cleared the bit while the other handle's acquisition,
\* which left the bit true without getting a guard, is still pending.
C4_Witness ==
    /\ pc[<<"p", "a">>] = "released"
    /\ pc[<<"p", "b">>] = "pending"
    /\ ~locked["p"]

\* C5: a poll made while no guard of the pair is outstanding (the first poll of
\* a fresh pair, or the next poll after the guard was dropped) completes with a
\* guard; every poll made while the other handle's guard is alive takes the
\* Pending branch and ends Pending without a guard.
C5_ScenarioA ==
    [][\A h \in Handles :
        /\ (PollSwap(h) /\ Guards(PairOf(h)) = {}) => pc'[h] = "held"
        /\ (PollSwap(h) /\ pc[OtherOf(h)] = "held") => pc'[h] = "swapped"
        /\ PollRegister(h) => pc'[h] = "pending"]_vars

\* After two lock() calls: a's guard wrote and is gone, b now holds the guard.
C5_Witness ==
    /\ pc[<<"p", "b">>] = "held"
    /\ pc[<<"p", "a">>] = "idle"
    /\ last["p"].by = <<"p", "a">>
    /\ nlock = 2

\* C6: a deref through a guard returns the value of the latest write through
\* any guard of the pair, or the value given to BiLock::new if none wrote,
\* whichever handle holds the guard.
C6_ReadsLastWrite ==
    [][\A h \in Handles : Read(h) => obs'.val = last[PairOf(h)].val]_vars

\* b's guard has read the value that a's guard wrote.
C6_Witness ==
    /\ obs = [by |-> <<"p", "b">>, val |-> MaxVal]
    /\ last["p"] = [val |-> MaxVal, by |-> <<"p", "a">>]

\* C7: try_join on the two handles of one pair returns Some of the payload:
\* the latest value written through a guard, or the value given to new.
C7_TryJoinRoundTrip ==
    (res.call = "try_join" /\ PairOf(res.self) = PairOf(res.other))
        => (res.out = "Some" /\ res.val = Some(last[PairOf(res.self)].val))

\* try_join gave back a value that was written through a guard.
C7_Witness ==
    /\ res.call = "try_join"
    /\ res.out = "Some"
    /\ res.val = Some(last["p"].val)
    /\ last["p"].by # None
    /\ cell["p"] = "taken"

\* C8: on handles of two different pairs try_join returns None without a
\* fault and join ends in the 'Unrelated BiLock' panic; join on the two
\* handles of one pair returns the payload and never faults.
C8_JoinUnrelated ==
    /\ (res.call = "try_join" /\ PairOf(res.self) # PairOf(res.other))
        => (res.out = "None" /\ res.val = None)
    /\ (res.call = "join" /\ PairOf(res.self) # PairOf(res.other))
        => (res.out = "panic_unrelated" /\ res.val = None)
    /\ (res.call = "join" /\ PairOf(res.self) = PairOf(res.other))
        => (res.out = "Some" /\ res.val = Some(last[PairOf(res.self)].val))

\* join was called on handles of two different pairs and panicked.
C8_Witness ==
    /\ res.call = "join"
    /\ res.out = "panic_unrelated"
    /\ PairOf(res.self) # PairOf(res.other)

\* The value the i-th successful flip must return, counting from 1.
Alternating(i) == IF i % 2 = 1 THEN ~finit ELSE finit

\* C9: the values returned by flip, in the order of the successful
\* compare-exchanges, alternate starting from the negation of the initial
\* value, and the flag holds its initial value exactly when the number of
\* completed flips is even.
C9_FlipAlternates ==
    /\ \A i \in 1..Len(hist) : hist[i] = Alternating(i)
    /\ (fval = finit) <=> (Len(hist) % 2 = 0)

\* Flips raced: one lost a compare-exchange to another, and all completed.
C9_Witness ==
    /\ Len(hist) = MaxFlips
    /\ \E t \in Threads : failed[t]
    /\ \A t \in Threads : tpc[t] = "idle"

\* C10: flip terminates.  In the unsync flavor no compare-exchange of a flip
\* call ever fails (the first iteration succeeds); in the sync flavor, under
\* fair scheduling, every flip call that entered the loop returns.
C10_FlipTerminates ==
    /\ [](flavor = "unsync" => \A t \in Threads : ~failed[t])
    /\ \A t \in Threads : (tpc[t] = "cas") ~> (tpc[t] = "idle")

\* A sync flip that lost a compare-exchange has nevertheless returned, after
\* every flip call of the run was made.
C10_Witness ==
    /\ flavor = "sync"
    /\ nflip = MaxFlips
    /\ \E t \in Threads : failed[t] /\ tpc[t] = "idle"

\* C12: each clone that register stored is invoked at most once; a clone is
\* invoked only by the wake whose take found it stored; a wake that finds the
\* slot empty invokes nothing and leaves the slot empty.
C12_WakeAtMostOnce ==
    /\ [](\A i \in CloneIds : inv[i] <= 1)
    /\ [][\A i \in CloneIds :
            /\ (fate[i] # "waking" /\ fate'[i] = "waking")
                => (fate[i] = "stored" /\ sid = i
                    /\ \E c \in Callers : wpc[c] = "idle" /\ wpc'[c] = "took" /\ hid'[c] = i)
            /\ inv'[i] # inv[i]
                => (fate[i] = "waking"
                    /\ \E c \in Callers : wpc[c] = "took" /\ hid[c] = i /\ wpc'[c] = "idle")]_vars
    /\ [][\A c \in Callers :
            /\ (wpc[c] = "idle" /\ wpc'[c] = "took" /\ wslot = None)
                => (wslot' = None /\ hid'[c] = 0 /\ inv' = inv)
            /\ (wpc[c] = "took" /\ wpc'[c] = "idle" /\ hid[c] = 0)
                => (wslot' = wslot /\ inv' = inv)]_vars

\* A waker was registered and woken, and a second wake then found the slot
\* empty and is about to return without invoking anything.
C12_Witness ==
    /\ nreg = 1
    /\ fate[1] = "woken" /\ inv[1] = 1
    /\ wslot = None
    /\ \E c \in Callers : wpc[c] = "took" /\ hid[c] = 0

\* C13: of two callers inside wake at the same time on a slot that held one
\* waker, exactly one took it and will invoke it: a take that finds a waker
\* removes it and gets that very clone, so no clone is in two callers' hands
\* and the other caller's take found the slot empty.
C13_ConcurrentWake ==
    /\ [](\A c, d \in Callers : (c # d /\ hid[c] # 0) => hid[d] # hid[c])
    /\ [](\A c \in Callers : hid[c] # 0 => (wpc[c] = "took" /\ sid # hid[c]))
    /\ [][\A c \in Callers :
            (wpc[c] = "idle" /\ wpc'[c] = "took" /\ wslot # None)
                => (wslot' = None /\ sid' = 0 /\ hid'[c] = sid)]_vars

\* Both callers are inside wake on a slot in which one waker was registered:
\* c1 holds it, c2 found the slot empty.
C13_Witness ==
    /\ flavor = "sync"
    /\ nreg = 1
    /\ wpc["c1"] = "took" /\ hid["c1"] = 1
    /\ wpc["c2"] = "took" /\ hid["c2"] = 0
    /\ inv[1] = 0

\* C14: the slot holds at most one waker.  register on an empty slot stores
\* the waker; register of a waker of the task whose waker is stored changes
\* nothing; register of another task's waker stores it in place of the old
\* one, which is dropped and never invoked.
C14_RegisterReplaces ==
    /\ [](/\ Cardinality({i \in CloneIds : fate[i] = "stored"}) <= 1
          /\ (wslot = None) <=> (sid = 0)
          /\ sid # 0 => fate[sid] = "stored"
          /\ \A i \in CloneIds : fate[i] = "replaced" => inv[i] = 0)
    /\ [][\A k \in Tasks : SlotRegister(k) =>
            /\ wslot' = k /\ sid' # 0 /\ fate'[sid'] = "stored"
            /\ wslot = None => (sid' = nreg + 1 /\ nreg' = nreg + 1)
            /\ wslot = k => UNCHANGED wvars
            /\ wslot \notin {None, k}
                => (sid' = nreg + 1 /\ fate'[sid] = "replaced" /\ inv'[sid] = inv[sid])]_vars

\* k1's waker was registered twice (one clone), k2's waker replaced it, and
\* k2's was woken: the replaced clone was never invoked.
C14_Witness ==
    /\ nreg = 2
    /\ fate[1] = "replaced" /\ inv[1] = 0
    /\ fate[2] = "woken" /\ inv[2] = 1
    /\ wslot = None

\* C15: try_unwrap through a handle of a cell whose count is above 1 fails and
\* gives the handle back, leaving handles, count and payload as they were; on
\* a cell whose count is 1 it succeeds, returns the value given to new, and
\* leaves no live handle.
C15_TryUnwrap ==
    [][\A x \in HandleIds : ShTryUnwrap(x) =>
        /\ ures'.h = x
        /\ scount > 1 => (/\ ures'.out = "Err"
                          /\ hs' = hs /\ scount' = scount
                          /\ spay' = spay /\ nrel' = nrel)
        /\ scount = 1 => (/\ ures'.out = "Ok" /\ ures'.val = Some(sval)
                          /\ scount' = 0 /\ spay' = "unwrapped"
                          /\ \A y \in HandleIds : hs'[y] # "live")]_vars

\* Handle 1 was cloned and the clone dropped; try_unwrap through handle 1 then
\* found the count at 1 and returned the value given to new.
C15_Witness ==
    /\ ures = [h |-> 1, found |-> 1, out |-> "Ok", val |-> Some(MaxVal)]
    /\ hs[1] = "unwrapped"
    /\ hs[2] = "dropped"
    /\ hs[3] = "none"

\* The handles made so far and those given up (dropped or unwrapped).
ShCreated == {x \in HandleIds : hs[x] # "none"}
ShGone == {x \in HandleIds : hs[x] \in {"freeing", "dropped", "unwrapped"}}

\* C16: the count equals the handles created minus the handles given up; the
\* payload is released (freed or handed out by try_unwrap) at most once, only
\* with the count at zero, and whenever the count is zero it is released or
\* the drop that brought the count to zero is about to free it.
C16_ReleasedOnce ==
    /\ scount = Cardinality(ShCreated) - Cardinality(ShGone)
    /\ nrel <= 1
    /\ (nrel = 1) <=> (spay \in {"freed", "unwrapped"})
    /\ spay \in {"freed", "unwrapped"} => scount = 0
    /\ (spay = "stored" /\ scount = 0)
        => Cardinality({x \in HandleIds : hs[x] = "freeing"}) = 1

\* Three handles were made and dropped in the sync flavor, the last two drops
\* one after the other; the last one freed the payload.
C16_Witness ==
    /\ flavor = "sync"
    /\ \A x \in HandleIds : hs[x] = "dropped"
    /\ scount = 0
    /\ spay = "freed"
    /\ nrel = 1

\* C17: a guard's drop clears the lock bit before it drains the waiter slot.
\* A task is woken only by the second step of a drop, and by then the bit is
\* false unless the other handle has acquired since; so a woken pending
\* acquisition that is polled again while the other handle holds no guard
\* finds the bit false and obtains the guard.
C17_ClearBeforeWake ==
    /\ [](\A g \in Handles :
            pc[g] = "released" => (locked[PairOf(g)] => pc[OtherOf(g)] = "held"))
    /\ [][\A h \in Handles :
            /\ (~woken[h] /\ woken'[h])
                => \E g \in HandlesOf(PairOf(h)) : pc[g] = "released" /\ pc'[g] = "idle"
            /\ (woken[h] /\ pc[h] = "pending" /\ PollSwap(h) /\ pc[OtherOf(h)] # "held")
                => pc'[h] = "held"]_vars

\* a's release has cleared the bit and woken b's pending acquisition, which
\* has not been polled again yet.
C17_Witness ==
    /\ woken[<<"p", "b">>]
    /\ pc[<<"p", "b">>] = "pending"
    /\ pc[<<"p", "a">>] = "idle"
    /\ ~locked["p"]
    /\ waiter["p"] = None

\* C18: a poll has two outcomes.  If its swap finds the bit false it sets it,
\* returns the guard and leaves the waiter slot alone; if it finds the bit
\* true it leaves it true, goes on to register the caller's waker, which is
\* then the stored one, and returns Pending.  Neither step changes the
\* payload, the handle count or the other handle, and a pending acquisition
\* moves again only when its caller polls or drops it.
C18_PollFrame ==
    [][\A h \in Handles :
        /\ PollSwap(h) =>
            /\ locked'[PairOf(h)]
            /\ pc'[h] = (IF locked[PairOf(h)] THEN "swapped" ELSE "held")
            /\ UNCHANGED <<waiter, data, last, count, cell, res>>
            /\ pc'[OtherOf(h)] = pc[OtherOf(h)]
        /\ PollRegister(h) =>
            /\ waiter'[PairOf(h)] = h
            /\ pc'[h] = "pending"
            /\ UNCHANGED <<locked, data, last, count, cell, res>>
            /\ pc'[OtherOf(h)] = pc[OtherOf(h)]
        /\ (pc[h] = "pending" /\ pc'[h] # "pending") => (PollSwap(h) \/ Abandon(h))]_vars

\* b's poll found the bit set by a's guard, registered b's waker and returned
\* Pending; the payload is what a wrote.
C18_Witness ==
    /\ pc[<<"p", "b">>] = "pending"
    /\ waiter["p"] = <<"p", "b">>
    /\ pc[<<"p", "a">>] = "held"
    /\ locked["p"]
    /\ data["p"] = MaxVal
    /\ last["p"].by = <<"p", "a">>

\* The handles of pair p that exist and were neither dropped nor joined.
LiveHandles(p) == {h \in HandlesOf(p) : pc[h] \notin {"none", "gone"}}

\* C19: the handle count of a pair's Inner is the number of its BiLock handles
\* still alive: 2 from new until a handle is dropped or joined, never more;
\* so no try_join or join ends in the 'BiLock is still shared' fault.
C19_NeverStillShared ==
    /\ \A p \in Pairs :
        /\ count[p] = Cardinality(LiveHandles(p))
        /\ count[p] <= 2
        /\ (cell[p] = "live" /\ \A h \in HandlesOf(p) : pc[h] # "gone") => count[p] = 2
    /\ res.out # "panic_shared"

\* try_join(b, a) dropped a, found b to be the last handle and took the payload.
C19_Witness ==
    /\ res.call = "try_join"
    /\ res.self = <<"p", "b">>
    /\ res.out = "Some"
    /\ count["p"] = 0
    /\ LiveHandles("p") = {}

\* C20: dropping an acquisition that has not completed changes nothing but the
\* caller's own position: the lock bit, the payload, the waiter slot and the
\* other handle's guard stay as they are.  A release that finds the stale
\* waker takes it out of the slot and wakes its task, which holds no
\* acquisition, and changes nothing else.  After such a wake a fresh
\* acquisition by either handle gets the guard on its first poll, unless the
\* other handle holds the guard at that moment.
C20_AbandonHarmless ==
    [][\A h \in Handles :
        /\ Abandon(h) =>
            /\ UNCHANGED <<locked, waiter, data, last, woken, count, cell>>
            /\ pc'[OtherOf(h)] = pc[OtherOf(h)]
        /\ (DropWake(OtherOf(h)) /\ waiter[PairOf(h)] = h /\ pc[h] = "idle") =>
            /\ woken'[h]
            /\ waiter'[PairOf(h)] = None
            /\ pc'[h] = "idle"
            /\ UNCHANGED <<locked, data, last, count, cell>>
        /\ (/\ PollSwap(h) /\ pc[h] = "created"
            /\ \E x \in HandlesOf(PairOf(h)) : woken[x] /\ pc[x] \in {"idle", "created"}
            /\ pc[OtherOf(h)] # "held")
                => pc'[h] = "held"]_vars

\* b abandoned its pending acquisition, a's release woke b's stale waker, and
\* a's fresh acquisition got the guard.
C20_Witness ==
    /\ woken[<<"p", "b">>]
    /\ pc[<<"p", "b">>] = "idle"
    /\ pc[<<"p", "a">>] = "held"
    /\ waiter["p"] = None
    /\ nlock = MaxLocks

\* The acquisitions of pair p whose poll found the bit set: inside the Pending
\* branch, or returned Pending and not polled again or dropped since.
Waiting(p) == {h \in HandlesOf(p) : pc[h] \in {"swapped", "pending"}}

\* C21: with one acquisition in flight per handle, and none polled by a handle
\* that holds its own guard, at most one acquisition of a pair waits at any
\* time.  So when register replaces another handle's stored waker, that
\* handle's acquisition is not pending, and the waker of a pending
\* acquisition leaves the slot only by being woken.
C21_SingleWaiter ==
    /\ [](\A p \in Pairs : Cardinality(Waiting(p)) <= 1)
    /\ [][\A h \in Handles :
            /\ (PollRegister(h) /\ waiter[PairOf(h)] \notin {None, h})
                => pc[waiter[PairOf(h)]] \notin {"swapped", "pending"}
            /\ (pc[h] = "pending" /\ waiter[PairOf(h)] = h /\ waiter'[PairOf(h)] # h)
                => woken'[h]]_vars

\* b's poll found the bit set by a's guard and is about to register, while the
\* slot still holds the stale waker of a's earlier pending acquisition.
C21_Witness ==
    /\ pc[<<"p", "b">>] = "swapped"
    /\ waiter["p"] = <<"p", "a">>
    /\ pc[<<"p", "a">>] = "held"

\* C22: try_join on handles of two different pairs returns None and consumes
\* both: each pair's count goes down by one, no payload is returned, the lock
\* bit, waiter slot and payload of both pairs stay as they are, and a pair's
\* payload is freed only if its other handle was already gone.  The handle
\* left of a pair still gets the guard whenever it polls, and a payload is
\* alive and unaltered as long as a handle of its pair lives.
C22_CrossJoinFrame ==
    /\ [](\A p \in Pairs :
            LiveHandles(p) # {} => (cell[p] = "live" /\ data[p] = last[p].val))
    /\ [][(/\ res'.call = "try_join"
           /\ pc[res'.self] = "idle" /\ pc'[res'.self] = "gone"
           /\ PairOf(res'.self) # PairOf(res'.other)) =>
                /\ res'.out = "None" /\ res'.val = None
                /\ pc[res'.other] = "idle" /\ pc'[res'.other] = "gone"
                /\ \A x \in {res'.self, res'.other} :
                    /\ count'[PairOf(x)] = count[PairOf(x)] - 1
                    /\ pc'[OtherOf(x)] = pc[OtherOf(x)]
                    /\ cell'[PairOf(x)] =
                        (IF pc[OtherOf(x)] = "gone" THEN "freed" ELSE "live")
                /\ UNCHANGED <<locked, waiter, data, last, woken>>]_vars
    /\ [][\A h \in Handles :
            (pc[OtherOf(h)] = "gone" /\ PollSwap(h)) => pc'[h] = "held"]_vars

\* try_join(a of p, a of q) returned None; afterwards b of p locked, wrote
\* and holds the guard, and q's payload is still alive.
C22_Witness ==
    /\ res.call = "try_join"
    /\ res.out = "None"
    /\ res.self = <<"p", "a">>
    /\ res.other = <<"q", "a">>
    /\ pc[<<"p", "b">>] = "held"
    /\ last["p"].by = <<"p", "b">>
    /\ cell["q"] = "live"

\* C23: in the single-context slot no call ever finds the RefCell borrowed:
\* while a continuation is invoked the borrow is released and the slot no
\* longer holds the clone being invoked, so register, take and wake called by
\* the continuation work as always; a register made during an invocation
\* stores the waker, and the return of the invocation leaves the slot as it is.
C23_WakeReentrant ==
    /\ [](~bfault)
    /\ [](stack # <<>> => ~bor)
    /\ [](\A c \in Callers :
            wpc[c] = "invoking" => (hid[c] # 0 /\ sid # hid[c] /\ fate[hid[c]] = "waking"))
    /\ [][\A k \in Tasks : (stack # <<>> /\ ReRegister(k)) => (wslot' = k /\ sid' # 0)]_vars
    /\ [][\A c \in Callers : ReReturn(c) => (wslot' = wslot /\ sid' = sid)]_vars

\* c1's wake is invoking k1's continuation (clone 1); during the invocation
\* k1 registered again, and that second clone is stored.
C23_Witness ==
    /\ stack = <<"c1">>
    /\ hid["c1"] = 1
    /\ wslot = <<"k1">>
    /\ sid = 2
    /\ fate[2] = "stored"

\* C24: every fetch_add and fetch_sub of a single-context atomic integer
\* returns the previous value and stores the exact result wrapped modulo
\* 2^Width, and none of them faults, whatever the stored value and argument.
C24_FetchWraps ==
    /\ [](~afault)
    /\ [][\A val \in RangeOf(aty) :
            /\ FetchAdd(val) => (aret' = Some(aval) /\ aval' = Wrap(aty, aval + val))
            /\ FetchSub(val) => (aret' = Some(aval) /\ aval' = Wrap(aty, aval - val))]_vars

====
